---- MODULE Spec2Model ----
(***************************************************************************)
(* The SafeC compile-time safety analyzer (region escape analysis, alias / *)
(* borrow checking, arena invalidation) as the reference documentation     *)
(* describes it: one forward walk over the statements of a function body,  *)
(* updating the place table, the borrow table and the arena table, and     *)
(* accumulating diagnostics.  The statements walked are recorded in prog.  *)
(***************************************************************************)
EXTENDS Integers, Sequences, FiniteSets, TLC

\* ---------------------------------------------------------------- bounds
\* Statements walked (scope exits and the end of the unit are not counted).
MaxStmts == 5
\* Deepest block nesting; the function body is depth 1, static storage 0.
MaxDepth == 3

\* ----------------------------------------------------------------- names
\* Value variables, reference variables and arenas a program may declare,
\* each pool in declaration order.
IntVars == <<"x", "y">>
RefVars == <<"a", "b">>
NullVars == <<"n", "m">>
ArrVars == <<"arr">>
\* The functions of the unit, in the order of their definitions.
FuncNames == <<"f", "g">>
SliceVars == <<"s">>

\* Declared array lengths, and the index expressions of a program: integer
\* literals and the runtime value i.
ArrayLens == {4, 5}
IndexExprs == {"-1", "0", "4", "5", "10", "i"}
StructVars == <<"p">>
Fields == {"x", "y"}
Arenas == <<"P", "Q">>

NoVal == [region |-> "None", depth |-> 0, target |-> "-", gen |-> 0]

\* The reference malloc hands back.
HeapVal == [region |-> "Heap", depth |-> 0, target |-> "-", gen |-> 0]

\* The reference a call hands back: into memory of the caller's frame.
CallVal == [region |-> "Stack", depth |-> 0, target |-> "-", gen |-> 0]

VARIABLES prog, scopes, places, borrows, generation, returned, diags, verdict

vars == <<prog, scopes, places, borrows, generation, returned, diags, verdict>>

\* ----------------------------------------------------------- scope table
\* scopes holds one entry per open block, TRUE for an unsafe block; the
\* function body is the first entry.
depth == Len(scopes)

\* unsafe is lexical: a statement is inside an unsafe block when any open
\* block around it is one.
InUnsafe == \E i \in 1..Len(scopes) : scopes[i]

Declared(n) == n \in DOMAIN places

InScope(n) == Declared(n) /\ places[n].live

\* The next undeclared name of a pool, or "-" when the pool is used up.
Fresh(pool) ==
    LET free == {i \in 1..Len(pool) : ~Declared(pool[i]) /\ pool[i] \notin DOMAIN generation}
    IN  IF free = {} THEN "-" ELSE pool[CHOOSE i \in free : \A j \in free : i <= j]

Pos == Len(prog) + 1

\* The open blocks after the first n statements, TRUE for an unsafe one.
\* The branches of an if are blocks; else closes one and opens the other.
RECURSIVE ScopesUpTo(_)
ScopesUpTo(n) ==
    IF n = 0 THEN <<FALSE>>
    ELSE LET s == ScopesUpTo(n - 1) IN
         CASE prog[n].op = "func" -> <<FALSE>>
           [] prog[n].op \in {"enter", "if", "while"} -> Append(s, FALSE)
           [] prog[n].op = "unsafe" -> Append(s, TRUE)
           [] prog[n].op = "exit" -> SubSeq(s, 1, Len(s) - 1)
           [] OTHER -> s

Openers == {"enter", "unsafe", "if", "else", "while"}

\* The openers of the blocks of a conditional or a loop: the walk forks at
\* them and joins at the brace that closes them.
Branches == {"if", "else", "while"}

\* Statement j stands inside an unsafe block.
UnsafeAt(j) == \E i \in 1..Len(ScopesUpTo(j - 1)) : ScopesUpTo(j - 1)[i]

\* Function g is called from inside an unsafe block.
CalledFromUnsafe(g) ==
    \E i \in 1..Len(prog) : prog[i].op = "callf" /\ prog[i].n = g /\ UnsafeAt(i)

\* Mutant of FuncScopes: a function called from an unsafe block is walked
\* as if its body stood in one.
FuncScopesInherited(g) == <<CalledFromUnsafe(g)>>

\* The scopes open at the start of the body of function g: the body alone,
\* not unsafe, wherever g is called from.
FuncScopes(g) == <<FALSE>>

\* The statement that opened the block statement n + 1 stands in, 0 for the
\* function body.
OpenerAt(n) ==
    LET os == {i \in 1..n : prog[i].op \in Openers /\ Len(ScopesUpTo(i)) = Len(ScopesUpTo(n))}
    IN  IF os = {} THEN 0 ELSE CHOOSE i \in os : \A j \in os : j <= i

Stmt(op, n, t, k) == [op |-> op, n |-> n, t |-> t, k |-> k]

\* ------------------------------------------------------------ diagnostics
\* The checks unsafe {} switches off: region escape analysis, the aliasing
\* rules and nullability enforcement.  Definite initialization is not.
UnsafeSuppresses == {"RegionEscape", "StackEscape", "AliasConflict", "NullDerefRisk"}

\* Mutant of Suppressed: unsafe switches every check off.
SuppressedAll(rule) == InUnsafe

Suppressed(rule) == InUnsafe /\ rule \in UnsafeSuppresses

\* The diagnostics a statement adds: one per violated rule, unless the rule
\* is suppressed where the statement stands.
Report(rules) == {[rule |-> r, pos |-> Pos] : r \in {q \in rules : ~Suppressed(q)}}

\* Mutant of Record: a new diagnostic replaces those recorded before.
RecordLatest(ds, new) == IF new = {} THEN ds ELSE new

\* The diagnostic sink: a statement's diagnostics are added to those already
\* recorded, and the walk goes on.
Record(ds, new) == ds \cup new

\* The driver's verdict at the end of the unit.
VerdictOf(ds) == IF ds = {} THEN "Ok" ELSE "Err"

\* ---------------------------------------------------------------- regions
\* Mutant of Outlives: only static storage is looked at, the scope depths
\* are not compared.
OutlivesLax(val, place) == val.region = "Static" \/ place.region # "Static"

\* Mutant of Outlives: static is given no special standing, only the scope
\* depths are compared.
OutlivesDepthOnly(val, place) == place.region # "Static" /\ val.depth <= place.depth

\* Mutant of Outlives: the scope depths are compared the other way round, a
\* referent counting as long-lived when it is declared deeper than the place.
OutlivesReversed(val, place) ==
    \/ val.region = "Static"
    \/ val.region = "Heap" /\ place.region # "Static"
    \/ val.region \in {"Stack", "Arena"} /\ place.region # "Static" /\ val.depth >= place.depth

\* static outlives everything; a stack referent declared at depth d lives
\* as long as a place declared at depth >= d.
Outlives(val, place) ==
    \/ val.region = "Static"
    \/ val.region = "Heap" /\ place.region # "Static"
    \/ val.region \in {"Stack", "Arena"} /\ place.region # "Static" /\ val.depth <= place.depth

\* Mutant of StoreEscapes: only a store into static storage is an escape.
StoreEscapesStaticOnly(val, place) ==
    val # NoVal /\ place.region = "Static" /\ val.region # "Static"

\* Storing a reference value into a place: an error when the place outlives
\* what the reference points to.
StoreEscapes(val, place) == val # NoVal /\ ~Outlives(val, place)

\* Mutant of ReturnEscapes: the function body itself is not counted, only
\* the blocks nested in it.
ReturnEscapesNested(val) == val.region = "Stack" /\ val.depth > 1

\* Returning a reference: an error for a reference to the function's own
\* stack (the body, depth 1, or any block in it).
ReturnEscapes(val) == val.region = "Stack" /\ val.depth >= 1

\* Mutant of Convertible: only a parameter that demands static storage is
\* checked.
ConvertibleByLifetime(vr, pr) == vr = "Static" \/ pr # "Static"

\* A reference of region vr may stand where one of region pr is declared:
\* the regions are the same, or vr is static (&static T is a subtype of
\* every other region reference).  There is no other conversion.
Convertible(vr, pr) == vr = pr \/ vr = "Static"

\* The rule passing val for a parameter declared of region pr breaks: the
\* argument is stored into a place of the callee's scope, of the
\* parameter's region.
ArgRules(val, pr) ==
    LET param == [region |-> "Stack", depth |-> depth + 1] IN
    IF StoreEscapes(val, param) \/ ~Convertible(val.region, pr) THEN {"RegionEscape"} ELSE {}

\* The reference value of &t.
AddrOf(t) == [region |-> places[t].region, depth |-> places[t].depth, target |-> t, gen |-> 0]

\* ------------------------------------------------------------ borrow table
\* Mutants of Conflicts: only mutable against mutable conflicts; only
\* records of the other kind conflict; every record conflicts; only a new
\* mutable borrow is checked.
ConflictsBothMutable(recs, t, k) ==
    \E r \in recs : r.place = t /\ k = "Mutable" /\ r.kind = "Mutable"

ConflictsOtherKind(recs, t, k) == \E r \in recs : r.place = t /\ r.kind # k

ConflictsAny(recs, t, k) == \E r \in recs : r.place = t

ConflictsNewMutable(recs, t, k) == \E r \in recs : r.place = t /\ k = "Mutable"

\* A new borrow of place t of kind k conflicts with a live record of t
\* unless both are immutable.
Conflicts(recs, t, k) ==
    \E r \in recs : r.place = t /\ (k = "Mutable" \/ r.kind = "Mutable")

\* Mutant of Retire: a block's exit leaves the borrow table alone.
RetireNone(recs, d) == recs

\* The records left when the block at depth d exits: those whose holder is
\* declared in that block are released.
Retire(recs, d) == {r \in recs : places[r.holder].depth # d}

\* The records left when holder h is overwritten.
Release(recs, h) == {r \in recs : r.holder # h}

Borrow(h, t, k) == [place |-> t, holder |-> h, kind |-> k, live_from |-> Pos, live_to |-> Pos]

\* Mutant of TakeBorrow: a conflicting borrow is reported and not recorded.
TakeBorrowUnlessConflict(recs, h, t, k) ==
    IF Conflicts(Release(recs, h), t, k) THEN Release(recs, h)
    ELSE Release(recs, h) \cup {Borrow(h, t, k)}

\* Taking a reference to t into holder h: whatever h borrowed before is
\* released and the new record inserted, whether or not a conflict was
\* found or reported.
TakeBorrow(recs, h, t, k) == Release(recs, h) \cup {Borrow(h, t, k)}

\* The rule a new borrow of t by h breaks, given the other live records.
BorrowRules(recs, h, t, k) ==
    IF Conflicts(Release(recs, h), t, k) THEN {"AliasConflict"} ELSE {}

\* The rule a store of val into place breaks.
StoreRules(val, place) == IF StoreEscapes(val, place) THEN {"RegionEscape"} ELSE {}

\* A use of reference h extends the live range of its records to here.
Touch(recs, h) ==
    {IF r.holder = h THEN [r EXCEPT !.live_to = Pos] ELSE r : r \in recs}

\* ------------------------------------------------------------------ arenas
\* Mutant of IsStale: stale only when the reference is newer than the arena.
IsStaleNewer(val) ==
    val.region = "Arena" /\ val.target \in DOMAIN generation /\ val.gen > generation[val.target].gen

\* Mutant of IsStale: a reset of any arena invalidates every arena reference.
IsStaleAnyReset(val) ==
    val.region = "Arena" /\ \E A \in DOMAIN generation : generation[A].gen > 0

\* A reference into an arena is stale once the arena was reset after the
\* reference was created.
IsStale(val) ==
    val.region = "Arena" /\ val.target \in DOMAIN generation /\ val.gen # generation[val.target].gen

\* ------------------------------------------------------------------- walk
Walking == verdict = "none"

\* The entries of prog that continue an if / else:  } else {  and the brace
\* that ends the else branch.  They belong to the conditional counted at its
\* if and are not statements of their own.
Joins == {i \in 1..Len(prog) : prog[i].op = "else" \/ (prog[i].op = "exit" /\ prog[i].n = "else")}

CanWalk == Walking /\ Len(prog) - Cardinality(Joins) < MaxStmts

Init ==
    /\ prog = <<>>
    /\ scopes = <<FALSE>>
    /\ places = <<>>
    /\ borrows = {}
    /\ generation = <<>>
    /\ returned = {}
    /\ diags = {}
    /\ verdict = "none"

\* Mutant of InitialState: a struct variable is treated like a scalar.
InitialStateScalarRule(kind, hasInit) == IF hasInit THEN "Init" ELSE "Uninit"

\* The initialization state of a place at its declaration: a variable
\* declared without an initializer is Uninit, but a struct variable counts
\* as initialized at declaration.
InitialState(kind, hasInit) == IF kind = "struct" \/ hasInit THEN "Init" ELSE "Uninit"

Place(kind, region, d, mut, val) ==
    [kind |-> kind, region |-> region, depth |-> d, mut |-> mut, val |-> val, live |-> TRUE,
     init |-> InitialState(kind, kind = "int" \/ val # NoVal),
     nullable |-> kind = "nref", narrow |-> 0, len |-> 0, saved |-> <<>>]

\* Mutant of MaybeNull: a nullable place is narrowed only while the walk
\* stands directly in the branch that narrowed it, not in a block nested in it.
MaybeNullNested(place) == place.nullable /\ place.narrow # depth

\* A nullable place is MaybeNull unless a null check narrowed it; narrow is
\* the depth of the branch in which it is NonNull, 0 when there is none.
MaybeNull(place) == place.nullable /\ place.narrow = 0

\* Mutant of Narrows: the branch taken is not looked at.
NarrowsEither(cmp, branch) == TRUE

\* The branch of a comparison against null in which the place is not null:
\* the true branch of !=, the false branch of ==.
Narrows(cmp, branch) == (cmp = "!=" /\ branch = "if") \/ (cmp = "==" /\ branch = "else")

\* place on entry to a branch at depth d that narrows it.
Narrowed(place, d) == IF place.narrow = 0 THEN [place EXCEPT !.narrow = d] ELSE place

\* place when the block at depth d is left: what that block narrowed is
\* MaybeNull again, what it declared is dead.
Left(place, d) ==
    [place EXCEPT !.narrow = IF @ = d THEN 0 ELSE @,
                  !.live = IF place.depth = d THEN FALSE ELSE @]

\* Mutant of Meet: a place is Init after a join when one path initialized it.
MeetAny(a, b) == IF a = "Init" \/ b = "Init" THEN "Init" ELSE "Uninit"

\* The must-initialize merge of the states a place has on two paths into a
\* join: Init only when it is Init on both.
Meet(a, b) == IF a = "Init" /\ b = "Init" THEN "Init" ELSE "Uninit"

\* place when the walk forks at a conditional or a loop: its state on entry
\* is saved for the path that does not run the branch.
Forked(place) ==
    IF place.live
    THEN [place EXCEPT !.saved = Append(@, [entry |-> place.init, then |-> place.init])]
    ELSE place

\* place at } else { closing the branch at depth d: the state the true
\* branch ended in is kept for the join, and the false branch starts from
\* the state on entry.
Swapped(place, d) ==
    IF place.live /\ place.depth < d /\ place.saved # <<>>
    THEN [place EXCEPT !.saved[Len(place.saved)].then = place.init,
                       !.init = place.saved[Len(place.saved)].entry]
    ELSE place

\* place at the join that ends the block at depth d opened by an o: after
\* if/else the merge of the ends of the two branches, after a lone if or a
\* loop the merge of the end of the body with the state on entry.
Joined(place, d, o) ==
    IF place.live /\ place.depth < d /\ o \in Branches /\ place.saved # <<>>
    THEN LET top == place.saved[Len(place.saved)] IN
         [place EXCEPT !.init = Meet(IF o = "else" THEN top.then ELSE top.entry, place.init),
                       !.saved = SubSeq(place.saved, 1, Len(place.saved) - 1)]
    ELSE place

\* The rule a dereference of place breaks.
DerefRules(place) == IF MaybeNull(place) THEN {"NullDerefRisk"} ELSE {}

\* Mutant of Assigned: the assignment leaves the initialization state alone.
AssignedUntracked(place) == place

\* A place after an assignment to the whole of it.
Assigned(place) == [place EXCEPT !.init = "Init"]

\* Mutant of ReadRules: only a place that was never in scope is reported.
ReadRulesLive(place) == IF ~place.live THEN {"UseOfUninitialized"} ELSE {}

\* Mutant of ReadRules: a struct is read as if its fields were tracked and
\* none of them written.
ReadRulesStructUninit(place) ==
    IF place.init = "Uninit" \/ place.kind = "struct" THEN {"UseOfUninitialized"} ELSE {}

\* The rule a read of place breaks.
ReadRules(place) == IF place.init = "Uninit" THEN {"UseOfUninitialized"} ELSE {}

\* int v = ...;   or   static int v = ...;
DeclVar(storage) ==
    LET v == Fresh(IntVars) IN
    /\ CanWalk /\ v # "-"
    /\ places' = (v :> Place("int", storage, IF storage = "Static" THEN 0 ELSE depth, "-", NoVal)) @@ places
    /\ prog' = Append(prog, Stmt("decl", v, "-", storage))
    /\ UNCHANGED <<scopes, borrows, generation, returned, diags, verdict>>

\* &stack int r;   or   static &stack int r;   (no initializer)
DeclRef(storage, k) ==
    LET r == Fresh(RefVars) IN
    /\ CanWalk /\ r # "-"
    /\ places' = (r :> Place("ref", storage, IF storage = "Static" THEN 0 ELSE depth, k, NoVal)) @@ places
    /\ diags' = Record(diags, Report(IF storage = "Static" THEN {"RegionEscape"} ELSE {}))
    /\ prog' = Append(prog, Stmt("declref", r, storage, k))
    /\ UNCHANGED <<scopes, borrows, generation, returned, verdict>>

\* [const] &stack int h = &t;
TakeRef(t, k) ==
    LET h == Fresh(RefVars)
        val == AddrOf(t)
        new == Place("ref", "Stack", depth, k, val)
    IN
    /\ CanWalk /\ h # "-"
    /\ InScope(t) /\ places[t].kind = "int"
    /\ places' = (h :> new) @@ places
    /\ diags' = Record(diags, Report(BorrowRules(borrows, h, t, k) \cup StoreRules(val, new)))
    /\ borrows' = TakeBorrow(borrows, h, t, k)
    /\ prog' = Append(prog, Stmt("takeref", h, t, k))
    /\ UNCHANGED <<scopes, generation, returned, verdict>>

\* r = &t;
AssignAddr(r, t) ==
    LET val == AddrOf(t)
        k == places[r].mut
    IN
    /\ CanWalk
    /\ InScope(r) /\ places[r].kind = "ref"
    /\ InScope(t) /\ places[t].kind = "int"
    /\ places' = [places EXCEPT ![r] = Assigned([@ EXCEPT !.val = val])]
    /\ diags' = Record(diags, Report(BorrowRules(borrows, r, t, k) \cup StoreRules(val, places[r])))
    /\ borrows' = TakeBorrow(borrows, r, t, k)
    /\ prog' = Append(prog, Stmt("assign", r, t, k))
    /\ UNCHANGED <<scopes, generation, returned, verdict>>

\* r = q;   (a copy of the reference q holds)
AssignRef(r, q) ==
    LET val == places[q].val
        t == val.target
        k == places[r].mut
        borrowing == val.region \in {"Stack", "Static"}
    IN
    /\ CanWalk /\ r # q
    /\ InScope(r) /\ places[r].kind = "ref"
    /\ InScope(q) /\ places[q].kind = "ref" /\ val # NoVal
    /\ places' = [places EXCEPT ![r] = Assigned([@ EXCEPT !.val = val])]
    /\ diags' = Record(diags, Report(
                   (IF borrowing THEN BorrowRules(borrows, r, t, k) ELSE {})
                   \cup StoreRules(val, places[r])
                   \cup (IF IsStale(val) THEN {"StaleArenaReference"} ELSE {})))
    /\ borrows' = IF borrowing THEN TakeBorrow(Touch(borrows, q), r, t, k) ELSE Touch(borrows, q)
    /\ prog' = Append(prog, Stmt("copy", r, q, k))
    /\ UNCHANGED <<scopes, generation, returned, verdict>>

\* return &t;
ReturnAddr(t) ==
    LET val == AddrOf(t) IN
    /\ CanWalk
    /\ InScope(t) /\ places[t].kind = "int"
    /\ returned' = returned \cup {val}
    /\ diags' = Record(diags, Report(IF ReturnEscapes(val) THEN {"StackEscape"} ELSE {}))
    /\ prog' = Append(prog, Stmt("return", "-", t, "-"))
    /\ UNCHANGED <<scopes, places, borrows, generation, verdict>>

\* return r;
ReturnRef(r) ==
    LET val == places[r].val IN
    /\ CanWalk
    /\ InScope(r) /\ places[r].kind = "ref" /\ val # NoVal
    /\ returned' = returned \cup {val}
    /\ diags' = Record(diags, Report(
                   (IF ReturnEscapes(val) THEN {"StackEscape"} ELSE {})
                   \cup (IF IsStale(val) THEN {"StaleArenaReference"} ELSE {})))
    /\ borrows' = Touch(borrows, r)
    /\ prog' = Append(prog, Stmt("returnref", r, "-", "-"))
    /\ UNCHANGED <<scopes, places, generation, verdict>>

\* *r = ...;   or   ... = *r;
UseRef(r) ==
    LET val == places[r].val IN
    /\ CanWalk
    /\ InScope(r) /\ places[r].kind = "ref" /\ val # NoVal
    /\ diags' = Record(diags, Report(IF IsStale(val) THEN {"StaleArenaReference"} ELSE {}))
    /\ borrows' = Touch(borrows, r)
    /\ prog' = Append(prog, Stmt("use", r, "-", "-"))
    /\ UNCHANGED <<scopes, places, generation, returned, verdict>>

\* int v;   (no initializer)
DeclUninit ==
    LET v == Fresh(IntVars) IN
    /\ CanWalk /\ v # "-"
    /\ places' = (v :> [Place("int", "Stack", depth, "-", NoVal) EXCEPT
                          !.init = InitialState("int", FALSE)]) @@ places
    /\ prog' = Append(prog, Stmt("declu", v, "-", "Stack"))
    /\ UNCHANGED <<scopes, borrows, generation, returned, diags, verdict>>

\* Point p;
DeclStruct ==
    LET p == Fresh(StructVars) IN
    /\ CanWalk /\ p # "-"
    /\ places' = (p :> Place("struct", "Stack", depth, "-", NoVal)) @@ places
    /\ prog' = Append(prog, Stmt("struct", p, "-", "Stack"))
    /\ UNCHANGED <<scopes, borrows, generation, returned, diags, verdict>>

\* v = 42;
Assign(v) ==
    /\ CanWalk
    /\ InScope(v) /\ places[v].kind = "int"
    /\ places' = [places EXCEPT ![v] = Assigned(@)]
    /\ prog' = Append(prog, Stmt("set", v, "-", "-"))
    /\ UNCHANGED <<scopes, borrows, generation, returned, diags, verdict>>

\* p.f = 1.0;
AssignField(p, f) ==
    /\ CanWalk
    /\ InScope(p) /\ places[p].kind = "struct"
    /\ prog' = Append(prog, Stmt("setf", p, f, "-"))
    /\ UNCHANGED <<scopes, places, borrows, generation, returned, diags, verdict>>

\* ... = v;   (a read of the variable; of the whole struct for a struct)
Read(v) ==
    /\ CanWalk
    /\ InScope(v) /\ places[v].kind \in {"int", "struct"}
    /\ diags' = Record(diags, Report(ReadRules(places[v])))
    /\ prog' = Append(prog, Stmt("read", v, "-", "-"))
    /\ UNCHANGED <<scopes, places, borrows, generation, returned, verdict>>

\* ... = p.f;
ReadField(p, f) ==
    /\ CanWalk
    /\ InScope(p) /\ places[p].kind = "struct"
    /\ diags' = Record(diags, Report(ReadRules(places[p])))
    /\ prog' = Append(prog, Stmt("readf", p, f, "-"))
    /\ UNCHANGED <<scopes, places, borrows, generation, returned, verdict>>

\* Mutant of RegionRules: only a region declared at the depth of the
\* current scope is looked for.
RegionRulesSameDepth(A) ==
    IF A \in DOMAIN generation /\ generation[A].depth = depth THEN {"DuplicateRegion"} ELSE {}

\* The rule a declaration of region A breaks: region names are visible
\* from every scope, so a second declaration of a name is a duplicate
\* wherever it stands.
RegionRules(A) == IF A \in DOMAIN generation THEN {"DuplicateRegion"} ELSE {}

\* The region table after declare_region(A): a new arena, generation 0,
\* bound to the current scope; a duplicate leaves the table as it is.
Registered(A) ==
    IF A \in DOMAIN generation THEN generation
    ELSE (A :> [gen |-> 0, depth |-> depth]) @@ generation

\* region A { capacity: ... }
DeclareRegion(A) ==
    /\ CanWalk /\ A # "-"
    /\ generation' = Registered(A)
    /\ diags' = Record(diags, Report(RegionRules(A)))
    /\ prog' = Append(prog, Stmt("region", A, "-", "-"))
    /\ UNCHANGED <<scopes, places, borrows, returned, verdict>>

\* &arena<A> T p = new<A> T;
ArenaNew(A) ==
    LET p == Fresh(RefVars)
        val == [region |-> "Arena", depth |-> generation[A].depth, target |-> A,
                gen |-> generation[A].gen]
        new == Place("ref", "Stack", depth, "Mutable", val)
    IN
    /\ CanWalk /\ p # "-"
    /\ A \in DOMAIN generation
    /\ places' = (p :> new) @@ places
    /\ diags' = Record(diags, Report(StoreRules(val, new)))
    /\ prog' = Append(prog, Stmt("new", p, A, "-"))
    /\ UNCHANGED <<scopes, borrows, generation, returned, verdict>>

\* Mutant of Invalidated: a reset advances the generation of every arena.
InvalidatedAll(A) == [B \in DOMAIN generation |-> [generation[B] EXCEPT !.gen = @ + 1]]

\* The region table after a reset of arena A: the generation of A advances
\* by one, the other arenas keep theirs.
Invalidated(A) == [generation EXCEPT ![A].gen = @ + 1]

\* arena_reset<A>();
ArenaReset(A) ==
    /\ CanWalk
    /\ A \in DOMAIN generation
    /\ generation' = Invalidated(A)
    /\ prog' = Append(prog, Stmt("reset", "-", A, "-"))
    /\ UNCHANGED <<scopes, places, borrows, returned, diags, verdict>>

\* {   or   unsafe {
EnterBlock(u) ==
    /\ CanWalk /\ depth < MaxDepth
    /\ scopes' = Append(scopes, u)
    /\ prog' = Append(prog, Stmt(IF u THEN "unsafe" ELSE "enter", "-", "-", "-"))
    /\ UNCHANGED <<places, borrows, generation, returned, diags, verdict>>

\* }  : the block's places die and the borrows its variables hold are
\* released; the brace that ends a conditional or a loop is a join.
ExitBlock ==
    LET o == prog[OpenerAt(Len(prog))].op IN
    /\ Walking /\ depth > 1
    /\ scopes' = SubSeq(scopes, 1, depth - 1)
    /\ borrows' = Retire(borrows, depth)
    /\ places' = [n \in DOMAIN places |-> Joined(Left(places[n], depth), depth, o)]
    /\ prog' = Append(prog, Stmt("exit", IF o \in Branches THEN o ELSE "-", "-", "-"))
    /\ UNCHANGED <<generation, returned, diags, verdict>>

\* The constant-evaluation engine: the value of a constant-foldable
\* expression, nothing for one computed at run time.
FoldConstant(e) ==
    CASE e = "-1" -> [some |-> TRUE, v |-> -1]
      [] e = "0" -> [some |-> TRUE, v |-> 0]
      [] e = "4" -> [some |-> TRUE, v |-> 4]
      [] e = "5" -> [some |-> TRUE, v |-> 5]
      [] e = "10" -> [some |-> TRUE, v |-> 10]
      [] OTHER -> [some |-> FALSE, v |-> 0]

\* Mutant of BoundsPolicy: the length itself is taken for a valid index.
BoundsPolicyInclusive(place, e) ==
    LET c == FoldConstant(e) IN
    IF place.kind = "array" /\ c.some
    THEN IF c.v >= 0 /\ c.v <= place.len THEN "ProvenSafe" ELSE "CompileError"
    ELSE "RuntimeGuard"

\* Mutant of BoundsPolicy: a constant index into a slice is checked against
\* the length of the array the slice was cut from.
BoundsPolicySlice(place, e) ==
    LET c == FoldConstant(e) IN
    IF c.some
    THEN IF c.v >= 0 /\ c.v < place.len THEN "ProvenSafe" ELSE "CompileError"
    ELSE "RuntimeGuard"

\* The bounds check of a[e]: at compile time for a constant index into an
\* array of known length, at run time for a dynamic index and for every
\* index into a slice.
BoundsPolicy(place, e) ==
    LET c == FoldConstant(e) IN
    IF place.kind = "array" /\ c.some
    THEN IF c.v >= 0 /\ c.v < place.len THEN "ProvenSafe" ELSE "CompileError"
    ELSE "RuntimeGuard"

\* Mutant of Decorate: inside unsafe only the run-time check is left out.
DecorateStaticKept(place, e) ==
    IF InUnsafe /\ BoundsPolicy(place, e) = "RuntimeGuard" THEN "Omit" ELSE BoundsPolicy(place, e)

\* Mutant of Decorate: unsafe is not looked at.
DecorateAlways(place, e) == BoundsPolicy(place, e)

\* The policy an indexing expression is decorated with: inside unsafe the
\* bounds checks are suppressed (the access carries boundsCheckOmit).
Decorate(place, e) == IF InUnsafe THEN "Omit" ELSE BoundsPolicy(place, e)

\* int arr[len];
DeclArray(len) ==
    LET a == Fresh(ArrVars) IN
    /\ CanWalk /\ a # "-"
    /\ places' = (a :> [Place("array", "Stack", depth, "-", NoVal) EXCEPT
                          !.len = len, !.init = "Init"]) @@ places
    /\ prog' = Append(prog, Stmt("array", a, "-", "-"))
    /\ UNCHANGED <<scopes, borrows, generation, returned, diags, verdict>>

\* []int s = a[0..3];
DeclSlice(a) ==
    LET sl == Fresh(SliceVars) IN
    /\ CanWalk /\ sl # "-"
    /\ InScope(a) /\ places[a].kind = "array"
    /\ places' = (sl :> [Place("slice", "Stack", depth, "-", NoVal) EXCEPT
                           !.len = places[a].len, !.init = "Init"]) @@ places
    /\ prog' = Append(prog, Stmt("slice", sl, a, "-"))
    /\ UNCHANGED <<scopes, borrows, generation, returned, diags, verdict>>

\* ... = a[e];   The statement walked carries the policy chosen for it.
Index(a, e) ==
    LET policy == Decorate(places[a], e) IN
    /\ CanWalk
    /\ InScope(a) /\ places[a].kind \in {"array", "slice"}
    /\ diags' = Record(diags, Report(IF policy = "CompileError" THEN {"OutOfBounds"} ELSE {}))
    /\ prog' = Append(prog, Stmt("index", a, e, policy))
    /\ UNCHANGED <<scopes, places, borrows, generation, returned, verdict>>

\* &heap int p = (heap int*)malloc(sizeof(int));
DeclHeap ==
    LET h == Fresh(RefVars) IN
    /\ CanWalk /\ h # "-"
    /\ places' = (h :> Place("ref", "Stack", depth, "Mutable", HeapVal)) @@ places
    /\ prog' = Append(prog, Stmt("malloc", h, "-", "-"))
    /\ UNCHANGED <<scopes, borrows, generation, returned, diags, verdict>>

\* f(&t);   with f's parameter declared &pr
PassAddr(t, pr) ==
    /\ CanWalk
    /\ InScope(t) /\ places[t].kind = "int"
    /\ diags' = Record(diags, Report(ArgRules(AddrOf(t), pr)))
    /\ prog' = Append(prog, Stmt("call", t, pr, "addr"))
    /\ UNCHANGED <<scopes, places, borrows, generation, returned, verdict>>

\* f(r);   with f's parameter declared &pr
PassRef(r, pr) ==
    LET val == places[r].val IN
    /\ CanWalk
    /\ InScope(r) /\ places[r].kind = "ref" /\ val # NoVal
    /\ diags' = Record(diags, Report(ArgRules(val, pr)))
    /\ borrows' = Touch(borrows, r)
    /\ prog' = Append(prog, Stmt("call", r, pr, "ref"))
    /\ UNCHANGED <<scopes, places, generation, returned, verdict>>

\* ?&stack Node n = get_next(node);
DeclNullable ==
    LET n == Fresh(NullVars) IN
    /\ CanWalk /\ n # "-"
    /\ places' = (n :> Place("nref", "Stack", depth, "Mutable", CallVal)) @@ places
    /\ prog' = Append(prog, Stmt("nref", n, "-", "-"))
    /\ UNCHANGED <<scopes, borrows, generation, returned, diags, verdict>>

\* Mutant of Overwritten: the narrowing of a place survives its overwrite.
OverwrittenKeepsNarrowing(place) == place

\* A nullable place after an assignment that overwrites it: whatever null
\* check narrowed it says nothing about the new value.
Overwritten(place) == [place EXCEPT !.narrow = 0]

\* n = get_next(node);   (the place is overwritten: its narrowing is lost)
AssignNullable(n) ==
    /\ CanWalk
    /\ InScope(n) /\ places[n].kind = "nref"
    /\ places' = [places EXCEPT ![n] = Assigned(Overwritten(@))]
    /\ prog' = Append(prog, Stmt("setn", n, "-", "-"))
    /\ UNCHANGED <<scopes, borrows, generation, returned, diags, verdict>>

\* ... = (*n).value;
Deref(n) ==
    /\ CanWalk
    /\ InScope(n) /\ places[n].kind = "nref"
    /\ diags' = Record(diags, Report(DerefRules(places[n])))
    /\ prog' = Append(prog, Stmt("deref", n, "-", "-"))
    /\ UNCHANGED <<scopes, places, borrows, generation, returned, verdict>>

\* if (n != null) {   or   if (n == null) {
IfNull(n, cmp) ==
    /\ CanWalk /\ depth < MaxDepth
    /\ InScope(n) /\ places[n].kind = "nref"
    /\ scopes' = Append(scopes, FALSE)
    /\ places' = [m \in DOMAIN places |->
                     IF m = n /\ Narrows(cmp, "if")
                     THEN Narrowed(Forked(places[m]), depth + 1) ELSE Forked(places[m])]
    /\ prog' = Append(prog, Stmt("if", n, "-", cmp))
    /\ UNCHANGED <<borrows, generation, returned, diags, verdict>>

\* if (c) {   or   while (c) {   with a condition the analyses do not read.
If(kind) ==
    /\ CanWalk /\ depth < MaxDepth
    /\ scopes' = Append(scopes, FALSE)
    /\ places' = [n \in DOMAIN places |-> Forked(places[n])]
    /\ prog' = Append(prog, Stmt(kind, "-", "-", "-"))
    /\ UNCHANGED <<borrows, generation, returned, diags, verdict>>

\* Mutant of ElseGeneration: the false branch starts from the generations
\* the conditional was entered with.
ElseGenerationRestored ==
    [A \in DOMAIN generation |->
        [generation[A] EXCEPT !.gen = Cardinality({i \in 1..OpenerAt(Len(prog)) :
                                                    prog[i].op = "reset" /\ prog[i].t = A})]]

\* The generation counters the false branch of a conditional starts from:
\* those the walk reached at the end of the true branch.  A counter is
\* changed at reset sites only and is never wound back.
ElseGeneration == generation

\* } else {  : the true branch is left as a block is, the false branch opened.
Else ==
    LET o == OpenerAt(Len(prog))
        left == [n \in DOMAIN places |-> Swapped(Left(places[n], depth), depth)]
    IN
    /\ CanWalk
    /\ o # 0 /\ prog[o].op = "if"
    /\ borrows' = Retire(borrows, depth)
    /\ places' = IF Narrows(prog[o].k, "else")
                 THEN [left EXCEPT ![prog[o].n] = Narrowed(@, depth)] ELSE left
    /\ generation' = ElseGeneration
    /\ prog' = Append(prog, Stmt("else", "-", "-", "-"))
    /\ UNCHANGED <<scopes, returned, diags, verdict>>

\* g();
CallFunc(g) ==
    /\ CanWalk
    /\ prog' = Append(prog, Stmt("callf", g, "-", "-"))
    /\ UNCHANGED <<scopes, places, borrows, generation, returned, diags, verdict>>

\* The end of one function's body and the start of the next function's:
\* the locals of the first die with the borrows they hold.
NextFunc ==
    LET done == Cardinality({i \in 1..Len(prog) : prog[i].op = "func"}) IN
    /\ CanWalk /\ depth = 1
    /\ done + 1 < Len(FuncNames)
    /\ scopes' = FuncScopes(FuncNames[done + 2])
    /\ borrows' = {}
    /\ places' = [n \in DOMAIN places |-> Left(places[n], 1)]
    /\ prog' = Append(prog, Stmt("func", FuncNames[done + 2], "-", "-"))
    /\ UNCHANGED <<generation, returned, diags, verdict>>

\* End of the unit: the verdict is Ok when no diagnostic was recorded.
Finish ==
    /\ Walking /\ depth = 1
    /\ verdict' = VerdictOf(diags)
    /\ UNCHANGED <<prog, scopes, places, borrows, generation, returned, diags>>

Kinds == {"Mutable", "Immutable"}

\* The alias / borrow checker's statements.
NextBorrow ==
    \/ DeclVar("Stack")
    \/ \E t \in DOMAIN places, k \in Kinds : TakeRef(t, k)
    \/ \E k \in Kinds : DeclRef("Stack", k)
    \/ \E r \in DOMAIN places, t \in DOMAIN places : AssignAddr(r, t)
    \/ \E r \in DOMAIN places : UseRef(r)
    \/ \E u \in BOOLEAN : EnterBlock(u)
    \/ ExitBlock
    \/ Finish

SpecBorrow == Init /\ [][NextBorrow]_vars

\* The escape analyzer's statements.
NextEscape ==
    \/ \E s \in {"Stack", "Static"} : DeclVar(s)
    \/ \E s \in {"Stack", "Static"} : DeclRef(s, "Mutable")
    \/ \E r \in DOMAIN places, t \in DOMAIN places : AssignAddr(r, t)
    \/ \E r \in DOMAIN places, q \in DOMAIN places : AssignRef(r, q)
    \/ \E t \in DOMAIN places : ReturnAddr(t)
    \/ \E r \in DOMAIN places : ReturnRef(r)
    \/ \E u \in BOOLEAN : EnterBlock(u)
    \/ ExitBlock
    \/ Finish

SpecEscape == Init /\ [][NextEscape]_vars

\* The region-invalidation tracker's statements.
NextArena ==
    \/ \E A \in {Fresh(Arenas)} \cup DOMAIN generation : DeclareRegion(A)
    \/ \E A \in DOMAIN generation : ArenaNew(A)
    \/ \E A \in DOMAIN generation : ArenaReset(A)
    \/ \E r \in DOMAIN places : UseRef(r)
    \/ \E u \in BOOLEAN : EnterBlock(u)
    \/ ExitBlock
    \/ Finish

SpecArena == Init /\ [][NextArena]_vars

\* The definite-initialization checker's statements.
NextInit ==
    \/ DeclUninit
    \/ DeclVar("Stack")
    \/ DeclStruct
    \/ \E v \in DOMAIN places : Assign(v)
    \/ \E p \in DOMAIN places, f \in Fields : AssignField(p, f)
    \/ \E v \in DOMAIN places : Read(v)
    \/ \E p \in DOMAIN places, f \in Fields : ReadField(p, f)
    \/ \E u \in BOOLEAN : EnterBlock(u)
    \/ ExitBlock
    \/ Finish

SpecInit == Init /\ [][NextInit]_vars

Cmps == {"!=", "=="}

\* The nullability enforcer's statements.
NextNull ==
    \/ DeclNullable
    \/ \E n \in DOMAIN places : AssignNullable(n)
    \/ \E n \in DOMAIN places : Deref(n)
    \/ \E n \in DOMAIN places, cmp \in Cmps : IfNull(n, cmp)
    \/ Else
    \/ \E u \in BOOLEAN : EnterBlock(u)
    \/ ExitBlock
    \/ Finish

SpecNull == Init /\ [][NextNull]_vars

ParamRegions == {"Stack", "Heap", "Static"}

\* The escape analyzer's statements around a call.
NextCall ==
    \/ \E st \in {"Stack", "Static"} : DeclVar(st)
    \/ DeclHeap
    \/ DeclRef("Stack", "Mutable")
    \/ \E r \in DOMAIN places, t \in DOMAIN places : AssignAddr(r, t)
    \/ \E t \in DOMAIN places, pr \in ParamRegions : PassAddr(t, pr)
    \/ \E r \in DOMAIN places, pr \in ParamRegions : PassRef(r, pr)
    \/ \E u \in BOOLEAN : EnterBlock(u)
    \/ ExitBlock
    \/ Finish

SpecCall == Init /\ [][NextCall]_vars

\* One statement of every pass, inside and outside unsafe blocks.
NextUnsafe ==
    \/ DeclUninit
    \/ \E v \in DOMAIN places : Read(v)
    \/ \E t \in DOMAIN places : TakeRef(t, "Mutable")
    \/ \E t \in DOMAIN places : ReturnAddr(t)
    \/ \E t \in DOMAIN places : PassAddr(t, "Heap")
    \/ DeclNullable
    \/ \E n \in DOMAIN places : Deref(n)
    \/ \E A \in {Fresh(Arenas)} \cup DOMAIN generation : DeclareRegion(A)
    \/ \E u \in BOOLEAN : EnterBlock(u)
    \/ ExitBlock
    \/ Finish

SpecUnsafe == Init /\ [][NextUnsafe]_vars

\* Statements of the suppressible rules in a unit of several functions.
NextLexical ==
    \/ DeclVar("Stack")
    \/ DeclRef("Static", "Mutable")
    \/ \E t \in DOMAIN places : TakeRef(t, "Mutable")
    \/ \E t \in DOMAIN places : ReturnAddr(t)
    \/ \E t \in DOMAIN places : PassAddr(t, "Heap")
    \/ DeclNullable
    \/ \E n \in DOMAIN places : Deref(n)
    \/ \E g \in {FuncNames[i] : i \in 1..Len(FuncNames)} : CallFunc(g)
    \/ NextFunc
    \/ \E u \in BOOLEAN : EnterBlock(u)
    \/ ExitBlock
    \/ Finish

SpecLexical == Init /\ [][NextLexical]_vars

\* The bounds-check policy selector's statements.
NextBounds ==
    \/ \E len \in ArrayLens : DeclArray(len)
    \/ \E a \in DOMAIN places : DeclSlice(a)
    \/ \E a \in DOMAIN places, e \in IndexExprs : Index(a, e)
    \/ \E u \in BOOLEAN : EnterBlock(u)
    \/ ExitBlock
    \/ Finish

SpecBounds == Init /\ [][NextBounds]_vars

\* Every statement the analyzer handles.
\* Arenas reset inside conditionals, among borrows of stack variables.
NextReset ==
    \/ DeclareRegion(Fresh(Arenas))
    \/ \E A \in DOMAIN generation : ArenaNew(A)
    \/ \E A \in DOMAIN generation : ArenaReset(A)
    \/ \E r \in DOMAIN places : UseRef(r)
    \/ DeclVar("Stack")
    \/ \E t \in DOMAIN places : TakeRef(t, "Immutable")
    \/ If("if")
    \/ Else
    \/ ExitBlock
    \/ Finish

SpecReset == Init /\ [][NextReset]_vars

\* Definite initialization across conditionals and loops.
NextMerge ==
    \/ DeclUninit
    \/ \E v \in DOMAIN places : Assign(v)
    \/ \E v \in DOMAIN places : Read(v)
    \/ \E kind \in {"if", "while"} : If(kind)
    \/ Else
    \/ ExitBlock
    \/ Finish

SpecMerge == Init /\ [][NextMerge]_vars

Next ==
    \/ NextBorrow
    \/ NextEscape
    \/ NextArena
    \/ NextInit
    \/ NextNull
    \/ NextBounds
    \/ NextCall
    \/ NextUnsafe
    \/ NextLexical
    \/ NextReset
    \/ NextMerge

Spec == Init /\ [][Next]_vars

\* ------------------------------------------------------------ properties
\* The step just taken walked one more statement; Last is that statement
\* and LastPos its position.
Stepped == Len(prog') = Len(prog) + 1

Last == prog'[Len(prog')]

LastPos == Len(prog')

Diag(rule, pos) == [rule |-> rule, pos |-> pos]

BorrowOps == {"takeref", "assign"}

BlockOps == {"enter", "unsafe", "exit", "if", "else", "while", "func"}

\* Statements i..j stand in one block, none of them opening or closing one.
SameBlock(i, j) == \A m \in i..j : prog[m].op \notin BlockOps

\* The holder of the borrow taken at statement i is not assigned again
\* before statement j.
StillHeld(i, j) ==
    \A m \in (i + 1)..(j - 1) : ~(prog[m].op \in {"assign", "copy"} /\ prog[m].n = prog[i].n)

\* The program has an unsafe block.
HasUnsafe == \E i \in 1..Len(prog) : prog[i].op = "unsafe"

\* No two live records of one place unless both are immutable.
Exclusive ==
    \A r1 \in borrows, r2 \in borrows :
        (r1 # r2 /\ r1.place = r2.place) => (r1.kind = "Immutable" /\ r2.kind = "Immutable")

\* C1 as stated: in every accepted program the live borrow records of a
\* place never hold a Mutable record together with any other record.
C1_AsStated == verdict = "Ok" => Exclusive

\* C1 (amended): mutable exclusivity.  In a program with no unsafe block, at
\* every program point of a walk that has recorded no AliasConflict (so in
\* every such program that is accepted), the live borrow records of a place
\* never hold a Mutable record together with any other record; several
\* Immutable records may coexist.
C1_MutableExclusivity ==
    ((\A d \in diags : d.rule # "AliasConflict") /\ ~HasUnsafe) => Exclusive

\* Two immutable borrows of one place live at once in an accepted program
\* with no unsafe block.
C1_Witness ==
    /\ verdict = "Ok" /\ ~HasUnsafe
    /\ \E r1 \in borrows, r2 \in borrows :
          r1 # r2 /\ r1.place = r2.place /\ r1.kind = "Immutable" /\ r2.kind = "Immutable"

Escaped ==
    \/ \E r \in DOMAIN places :
          /\ places[r].kind = "ref"
          /\ places[r].val.region = "Stack"
          /\ places[r].val.depth > places[r].depth
    \/ \E v \in returned : v.region = "Stack"

\* C3 as stated: in every accepted program no stack reference has escaped.
C3_AsStated == verdict = "Ok" => ~Escaped

\* C3 (amended): in a program with no unsafe block, as long as no diagnostic
\* is recorded (so whenever the verdict is Ok) no stack reference is stored
\* in, or returned to, a scope that outlives its referent.
C3_NoStackEscape == (diags = {} /\ ~HasUnsafe) => ~Escaped

\* An accepted program without unsafe in which a place holds a stack
\* reference taken in a nested block.
C3_Witness ==
    /\ verdict = "Ok" /\ ~HasUnsafe
    /\ \E r \in DOMAIN places :
          places[r].kind = "ref" /\ places[r].val.region = "Stack" /\ places[r].depth > 1

\* C5: diagnostics accumulate and never abort.  A recorded diagnostic is
\* never dropped; recording one leaves the analysis running (no verdict yet)
\* with the statement walked; and the verdict at the end is Ok exactly when
\* no diagnostic was recorded.
C5_Accumulate ==
    /\ [](verdict = "Ok" => diags = {})
    /\ [](verdict = "Err" => diags # {})
    /\ [][ /\ diags \subseteq diags'
           /\ (diags' # diags => (verdict' = "none" /\ Stepped))
           /\ (verdict' # verdict => (verdict = "none" /\ diags' = diags)) ]_vars

\* Diagnostics of two passes at two statements, a statement walked after
\* them, and the verdict Err.
C5_Witness ==
    /\ verdict = "Err"
    /\ \E d \in diags, e \in diags :
          /\ d.rule = "RegionEscape" /\ e.rule = "StackEscape"
          /\ d.pos < e.pos /\ e.pos < Len(prog)

\* C6: scenario A.  Of two mutable references to one place taken one after
\* the other in one block (outside unsafe, the first still held by its
\* variable), the second is reported AliasConflict at its declaration.
C6_ScenarioA ==
    \A i \in 1..Len(prog), j \in 1..Len(prog) :
        ( /\ i < j /\ SameBlock(i, j) /\ StillHeld(i, j) /\ ~UnsafeAt(j)
          /\ prog[i].op = "takeref" /\ prog[j].op = "takeref"
          /\ prog[i].t = prog[j].t
          /\ prog[i].k = "Mutable" /\ prog[j].k = "Mutable" )
        => Diag("AliasConflict", j) \in diags

ScenarioA ==
    << Stmt("decl", "x", "-", "Stack"),
       Stmt("takeref", "a", "x", "Mutable"),
       Stmt("takeref", "b", "x", "Mutable") >>

\* int x; &stack int a = &x; &stack int b = &x;  with the conflict at b.
C6_Witness == prog = ScenarioA /\ diags = {Diag("AliasConflict", 3)}

\* C7: scenario B.  An immutable reference to a place of which no mutable
\* reference was taken before is never reported AliasConflict, however many
\* immutable ones are live; the two-reference program is accepted.
ScenarioB ==
    << Stmt("decl", "x", "-", "Stack"),
       Stmt("takeref", "a", "x", "Immutable"),
       Stmt("takeref", "b", "x", "Immutable") >>

C7_ScenarioB ==
    /\ \A j \in 1..Len(prog) :
          ( /\ prog[j].op \in BorrowOps /\ prog[j].k = "Immutable"
            /\ \A i \in 1..(j - 1) :
                  (prog[i].op \in BorrowOps /\ prog[i].t = prog[j].t) => prog[i].k = "Immutable" )
          => Diag("AliasConflict", j) \notin diags
    /\ (prog = ScenarioB /\ verdict # "none") => verdict = "Ok"

\* const &stack int a = &x; const &stack int b = &x;  accepted, both live.
C7_Witness ==
    /\ prog = ScenarioB /\ verdict = "Ok"
    /\ Cardinality({r \in borrows : r.place = "x" /\ r.kind = "Immutable"}) = 2

\* The step takes a reference to a place of which another holder has a live
\* borrow of the other kind: mutable against immutable, or immutable
\* against mutable.
TakesOtherKind ==
    /\ Stepped /\ Last.op \in BorrowOps
    /\ \E r \in borrows : r.place = Last.t /\ r.holder # Last.n /\ r.kind # Last.k

\* C8 as stated: taking a mutable reference while an immutable borrow of the
\* place is live, and an immutable one while a mutable borrow is live, are
\* each reported AliasConflict at the new reference.
C8_AsStated ==
    [][ TakesOtherKind => Diag("AliasConflict", LastPos) \in diags' ]_vars

\* C8 (amended): the conflict check is symmetric.  Outside unsafe blocks,
\* taking a mutable reference while an immutable borrow of the place is
\* live, and an immutable one while a mutable borrow is live, are each
\* reported AliasConflict at the new reference.
C8_Symmetric ==
    [][ (TakesOtherKind /\ ~InUnsafe) => Diag("AliasConflict", LastPos) \in diags' ]_vars

\* Both directions in one program: a mutable reference taken while an
\* immutable one is live, then an immutable one while the mutable is live.
C8_Witness ==
    \E i \in 1..Len(prog), j \in 1..Len(prog) :
        /\ i < j
        /\ prog[i].op \in BorrowOps /\ prog[i].k = "Mutable"
        /\ prog[j].op \in BorrowOps /\ prog[j].k = "Immutable"
        /\ prog[i].t = prog[j].t
        /\ \E h \in 1..(i - 1) :
              prog[h].op \in BorrowOps /\ prog[h].k = "Immutable" /\ prog[h].t = prog[i].t
        /\ Diag("AliasConflict", i) \in diags
        /\ Diag("AliasConflict", j) \in diags
        /\ \E r \in borrows : r.place = prog[i].t /\ r.kind = "Mutable"

\* The step returns a reference to a stack variable of the function
\* (declared in the body or in a block nested in it), written return &t, or
\* return r with r holding such a reference.
ReturnsStack ==
    /\ Stepped
    /\ \/ /\ Last.op = "return"
          /\ places[Last.t].region = "Stack" /\ places[Last.t].depth >= 1
       \/ /\ Last.op = "returnref"
          /\ places[Last.n].val.region = "Stack" /\ places[Last.n].val.depth >= 1

\* C9 as stated: a return of a stack reference created in the function body
\* or deeper is always reported StackEscape.
C9_AsStated ==
    [][ ReturnsStack => Diag("StackEscape", LastPos) \in diags' ]_vars

\* C9 (amended): scenario C.  Outside unsafe blocks, a return of a stack
\* reference created in the function body or deeper is always reported
\* StackEscape.
C9_ReturnStack ==
    [][ (ReturnsStack /\ ~InUnsafe) => Diag("StackEscape", LastPos) \in diags' ]_vars

\* int x; return &x;  rejected at the return.
C9_Witness ==
    /\ prog = << Stmt("decl", "x", "-", "Stack"), Stmt("return", "-", "x", "-") >>
    /\ diags = {Diag("StackEscape", 2)}

\* The reference value an assignment stores, read before the step.
Stored == IF Last.op = "assign" THEN AddrOf(Last.t) ELSE places[Last.t].val

\* The step assigns a stack or static reference to a reference variable.
AssignsRef == Stepped /\ Last.op \in {"assign", "copy"} /\ Stored.region \in {"Stack", "Static"}

\* The assignment is reported RegionEscape exactly when the place assigned
\* is static or declared in a scope enclosing the referent's, and the
\* source neither is static nor has its referent declared at the place's
\* depth or above it.
EscapeReported ==
    LET place == places[Last.n]
        outlives == \/ Stored.region = "Static"
                    \/ place.region # "Static" /\ Stored.depth <= place.depth
    IN  Diag("RegionEscape", LastPos) \in diags' <=> ~outlives

\* C10 as stated: an assignment of a reference into a static place or a
\* place of an enclosing scope is reported RegionEscape unless the source
\* region outlives or equals the target's.
C10_AsStated == [][ AssignsRef => EscapeReported ]_vars

\* C10 (amended): region escape on assignment.  Outside unsafe blocks, an
\* assignment of a reference into a static place or a place of an enclosing
\* scope is reported RegionEscape unless the source region outlives or
\* equals the target's.
C10_RegionEscape == [][ (AssignsRef /\ ~InUnsafe) => EscapeReported ]_vars

\* &stack int a; { int x; a = &x; }  rejected at the assignment.
C10_Witness ==
    /\ Len(prog) >= 4
    /\ SubSeq(prog, 1, 4) = << Stmt("declref", "a", "Stack", "Mutable"),
                               Stmt("enter", "-", "-", "-"),
                               Stmt("decl", "x", "-", "Stack"),
                               Stmt("assign", "a", "x", "Mutable") >>
    /\ Diag("RegionEscape", 4) \in diags

\* The step stores a reference to static storage into a reference variable.
StoresStatic == Stepped /\ Last.op \in {"assign", "copy"} /\ Stored.region = "Static"

\* The step returns a reference to static storage.
ReturnsStatic ==
    /\ Stepped
    /\ \/ Last.op = "return" /\ places[Last.t].region = "Static"
       \/ Last.op = "returnref" /\ places[Last.n].val.region = "Static"

\* C11: static references are the most permissive.  Storing a reference of
\* region Static into any place (static or stack, at any depth) and returning
\* one never reports RegionEscape or StackEscape.
C11_StaticPermissive ==
    [][ (StoresStatic \/ ReturnsStatic) =>
          /\ Diag("RegionEscape", LastPos) \notin diags'
          /\ Diag("StackEscape", LastPos) \notin diags' ]_vars

\* A static reference stored into a static place, copied into a place of a
\* nested block and returned, none of the three reported.
C11_Witness ==
    \E i \in 1..Len(prog), j \in 1..Len(prog), k \in 1..Len(prog) :
        /\ i < j /\ j < k
        /\ prog[i].op = "assign" /\ places[prog[i].n].region = "Static"
        /\ places[prog[i].t].region = "Static"
        /\ prog[j].op = "returnref" /\ prog[j].n = prog[i].n
        /\ prog[k].op = "return" /\ prog[k].t = prog[i].t
        /\ \A d \in diags : d.pos \notin {i, j, k}

\* Variable v was declared without an initializer before statement j, and
\* no assignment to the whole of it stands between the two.
UninitAt(v, j) ==
    /\ \E i \in 1..(j - 1) : prog[i].op = "declu" /\ prog[i].n = v
    /\ \A i \in 1..(j - 1) : ~(prog[i].op = "set" /\ prog[i].n = v)

\* C12: definite initialization.  A read of a variable is reported
\* UseOfUninitialized exactly when the variable is Uninit there: declared
\* without an initializer and not assigned as a whole since; a read that
\* follows an assignment is not reported.
C12_DefiniteInit ==
    \A j \in 1..Len(prog) :
        (prog[j].op = "read" /\ places[prog[j].n].kind = "int") =>
            (Diag("UseOfUninitialized", j) \in diags <=> UninitAt(prog[j].n, j))

\* int x; read x (reported); x = 42; read x (not reported).
C12_Witness ==
    /\ prog = << Stmt("declu", "x", "-", "Stack"), Stmt("read", "x", "-", "-"),
                 Stmt("set", "x", "-", "-"), Stmt("read", "x", "-", "-") >>
    /\ diags = {Diag("UseOfUninitialized", 2)}

\* C15: struct variables count as initialized at declaration.  A use of a
\* struct variable after its declaration, of the whole or of a field, with
\* or without field assignments before it, is never reported
\* UseOfUninitialized.
C15_StructInit ==
    \A j \in 1..Len(prog) :
        (prog[j].op \in {"read", "readf"} /\ places[prog[j].n].kind = "struct") =>
            Diag("UseOfUninitialized", j) \notin diags

\* Point p; p.x = 1.0; p.y = 2.0; ... = p.x;  accepted.
C15_Witness ==
    /\ prog = << Stmt("struct", "p", "-", "Stack"), Stmt("setf", "p", "x", "-"),
                 Stmt("setf", "p", "y", "-"), Stmt("readf", "p", "x", "-") >>
    /\ verdict = "Ok"

\* Statement j stands inside the block statement i opened.
Inside(i, j) ==
    /\ i < j /\ prog[i].op \in Openers
    /\ \A m \in (i + 1)..(j - 1) :
          /\ Len(ScopesUpTo(m)) >= Len(ScopesUpTo(i))
          /\ ~(prog[m].op = "else" /\ Len(ScopesUpTo(m)) = Len(ScopesUpTo(i)))

\* Statement i opens the branch of a comparison of n against null in which
\* n is not null: the true branch of n != null, the false one of n == null.
NonNullBranch(i, n) ==
    \/ prog[i].op = "if" /\ prog[i].n = n /\ prog[i].k = "!="
    \/ /\ prog[i].op = "else"
       /\ LET o == OpenerAt(i - 1) IN prog[o].op = "if" /\ prog[o].n = n /\ prog[o].k = "=="

\* A null check of n dominates statement j: j stands in a branch consistent
\* with n being non-null, and n is not overwritten between the two.
Checked(n, j) ==
    \E i \in 1..(j - 1) :
        /\ NonNullBranch(i, n) /\ Inside(i, j)
        /\ \A m \in (i + 1)..(j - 1) : ~(prog[m].op = "setn" /\ prog[m].n = n)

\* Every nullable place is MaybeNull at its declaration.
StartsMaybeNull ==
    \A j \in 1..Len(prog) :
        (prog[j].op = "nref" /\ j = Len(prog)) => MaybeNull(places[prog[j].n])

\* C13 as stated: a nullable place starts MaybeNull; a dereference with no
\* dominating null check is reported NullDerefRisk, one inside the branch of
\* a dominating check consistent with non-null is not.
C13_AsStated ==
    /\ StartsMaybeNull
    /\ \A j \in 1..Len(prog) :
          prog[j].op = "deref" =>
              (Diag("NullDerefRisk", j) \in diags <=> ~Checked(prog[j].n, j))

\* C13 (amended): nullability.  A nullable place starts MaybeNull; outside
\* unsafe blocks a dereference with no dominating null check is reported
\* NullDerefRisk; one inside the branch of a dominating check consistent
\* with non-null is never reported.
C13_Nullability ==
    /\ StartsMaybeNull
    /\ \A j \in 1..Len(prog) :
          prog[j].op = "deref" =>
              (Diag("NullDerefRisk", j) \in diags <=> (~Checked(prog[j].n, j) /\ ~UnsafeAt(j)))

\* ?&stack Node n = ...; *n (reported); if (n != null) { *n } (not reported).
C13_Witness ==
    /\ prog = << Stmt("nref", "n", "-", "-"), Stmt("deref", "n", "-", "-"),
                 Stmt("if", "n", "-", "!="), Stmt("deref", "n", "-", "-"),
                 Stmt("exit", "if", "-", "-") >>
    /\ diags = {Diag("NullDerefRisk", 2)}

\* The index of statement j is a literal, and whether it lies in [0, len)
\* of the array or slice indexed.
ConstIndex(j) == FoldConstant(prog[j].t).some

InBounds(j) ==
    FoldConstant(prog[j].t).v >= 0 /\ FoldConstant(prog[j].t).v < places[prog[j].n].len

\* What the claim asks of the indexing statement j: OutOfBounds and no
\* policy but CompileError for a literal outside [0, len) of an array,
\* ProvenSafe for a literal inside it, RuntimeGuard and no error for a
\* dynamic index and for any index into a slice.
PolicyAsClaimed(j) ==
    LET arr == places[prog[j].n].kind = "array"
        err == Diag("OutOfBounds", j) \in diags
    IN  /\ (arr /\ ConstIndex(j) /\ ~InBounds(j)) => (err /\ prog[j].k = "CompileError")
        /\ (arr /\ ConstIndex(j) /\ InBounds(j)) => (~err /\ prog[j].k = "ProvenSafe")
        /\ (arr /\ ~ConstIndex(j)) => (~err /\ prog[j].k = "RuntimeGuard")
        /\ ~arr => (~err /\ prog[j].k = "RuntimeGuard")

\* C14 as stated: the bounds-check policy holds of every indexing
\* expression.
C14_AsStated == \A j \in 1..Len(prog) : prog[j].op = "index" => PolicyAsClaimed(j)

\* C14 (amended): bounds-check policy, scenario E.  Outside unsafe blocks a
\* literal index outside [0, len) of an array of known length is a
\* compile-time OutOfBounds, a literal inside is ProvenSafe, a dynamic index
\* is RuntimeGuard with no error, and an index into a slice is RuntimeGuard
\* whether or not it is constant.
C14_BoundsPolicy ==
    \A j \in 1..Len(prog) : (prog[j].op = "index" /\ ~UnsafeAt(j)) => PolicyAsClaimed(j)

\* int arr[5]; arr[10] (error); arr[i] (guard); []int s = arr[..]; s[10]
\* (guard).
C14_Witness ==
    /\ prog = << Stmt("array", "arr", "-", "-"), Stmt("index", "arr", "10", "CompileError"),
                 Stmt("index", "arr", "i", "RuntimeGuard"), Stmt("slice", "s", "arr", "-"),
                 Stmt("index", "s", "10", "RuntimeGuard") >>
    /\ places["arr"].len = 5
    /\ diags = {Diag("OutOfBounds", 2)}

PassesArg == Stepped /\ Last.op = "call"

Passed == IF Last.k = "addr" THEN AddrOf(Last.n) ELSE places[Last.n].val

\* The call is rejected exactly when the argument's region is not the
\* parameter's and not static: a stack reference for a &heap parameter is
\* rejected, and a reference of the parameter's own region is accepted at
\* any depth, the callee's place never outliving the caller's referent.
CrossRegionChecked ==
    Diag("RegionEscape", LastPos) \in diags' <=> Passed.region \notin {Last.t, "Static"}

\* C16 as stated: references of different regions are not interchangeable;
\* a stack reference passed for a parameter declared &heap is rejected with
\* a diagnostic, the argument being checked like a store into a place
\* scoped to the callee.
C16_AsStated == [][ PassesArg => CrossRegionChecked ]_vars

\* C16 (amended): no implicit cross-region conversion.  Outside unsafe
\* blocks, a stack reference passed for a parameter declared &heap is
\* rejected with a diagnostic, the argument being checked like a store into
\* a place scoped to the callee.
C16_CrossRegion == [][ (PassesArg /\ ~InUnsafe) => CrossRegionChecked ]_vars

\* int x; takes_heap(&x);  rejected at the call.
C16_Witness ==
    /\ prog = << Stmt("decl", "x", "-", "Stack"), Stmt("call", "x", "Heap", "addr") >>
    /\ diags = {Diag("RegionEscape", 2)}

\* Region A was declared by a statement before statement j.
DeclaredBefore(A, j) == \E i \in 1..(j - 1) : prog[i].op = "region" /\ prog[i].n = A

\* The statements the scope and region builder handles.
BuilderOps == {"region", "enter", "unsafe", "if", "else", "exit"}

Breaks(j) ==
    CASE prog[j].op = "declref" -> IF prog[j].t = "Static" THEN {"RegionEscape"} ELSE {}
      [] prog[j].op = "return" -> {"StackEscape"}
      [] prog[j].op = "call" -> IF prog[j].t = "Heap" THEN {"RegionEscape"} ELSE {}
      [] prog[j].op = "deref" -> IF Checked(prog[j].n, j) THEN {} ELSE {"NullDerefRisk"}
      [] prog[j].op = "takeref" ->
           IF \E i \in 1..(j - 1) :
                 /\ prog[i].op = "takeref" /\ prog[i].t = prog[j].t
                 /\ SameBlock(i, j) /\ StillHeld(i, j)
           THEN {"AliasConflict"} ELSE {}
      [] OTHER -> {}

\* C19: unsafe is lexically scoped and does not propagate.  A statement
\* that does not stand inside an unsafe block is checked with every rule
\* enabled, whether an unsafe block ended before it or its function is
\* called from inside one: every rule it breaks is reported; and only
\* statements inside an unsafe block have a rule suppressed.
C19_UnsafeLexical ==
    /\ InUnsafe <=> UnsafeAt(Len(prog) + 1)
    /\ \A j \in 1..Len(prog) :
          \A rule \in Breaks(j) : Diag(rule, j) \in diags <=> ~UnsafeAt(j)

\* f: unsafe { g(); }   g: static &stack int a;  reported in g, which f
\* calls from its unsafe block.
C19_Witness ==
    /\ prog = << Stmt("unsafe", "-", "-", "-"), Stmt("callf", "g", "-", "-"),
                 Stmt("exit", "-", "-", "-"), Stmt("func", "g", "-", "-"),
                 Stmt("declref", "a", "Static", "Mutable") >>
    /\ diags = {Diag("RegionEscape", 5)}

\* Statements i and j are two sequential borrows of one place by two
\* holders in one block, the only borrows of that place in the program, and
\* the reference taken at i is not used once the one at j is taken.
Sequential(i, j) ==
    /\ i < j /\ SameBlock(i, j)
    /\ prog[i].op \in BorrowOps /\ prog[j].op \in BorrowOps
    /\ prog[i].t = prog[j].t /\ prog[i].n # prog[j].n
    /\ \A m \in 1..Len(prog) :
          /\ (prog[m].op \in BorrowOps /\ prog[m].t = prog[i].t) => m \in {i, j}
          /\ (prog[m].op = "use" /\ prog[m].n = prog[i].n) => m < j

\* C21: non-lexical liveness.  A borrow's live range ends at the last use
\* of its reference, so in a finished walk the second of two sequential,
\* non-overlapping borrows of a place in one block is not reported
\* AliasConflict, even when one or both are Mutable.
C21_NonLexical ==
    verdict # "none" =>
        \A i \in 1..Len(prog), j \in 1..Len(prog) :
            Sequential(i, j) => Diag("AliasConflict", j) \notin diags

\* The statement that declares reference variable h.
DeclAt(h) == CHOOSE d \in 1..Len(prog) : prog[d].op \in {"takeref", "declref"} /\ prog[d].n = h

\* The block statement d stands in is still open at statement j.
ScopeOpen(d, j) == \A m \in d..(j - 1) : Len(ScopesUpTo(m)) >= Len(ScopesUpTo(d))

\* C22: scope exit releases borrows.  No borrow record outlives the block
\* its holder variable is declared in, and a borrow is reported
\* AliasConflict only when another variable whose block is still open took
\* a borrow of the place before: never because of a borrow held by a
\* variable of a block that has exited.
C22_ScopeExit ==
    /\ \A r \in borrows : places[r.holder].live
    /\ \A j \in 1..Len(prog) :
          Diag("AliasConflict", j) \in diags =>
              \E i \in 1..(j - 1) :
                  /\ prog[i].op \in BorrowOps /\ prog[i].t = prog[j].t
                  /\ prog[i].n # prog[j].n
                  /\ ScopeOpen(DeclAt(prog[i].n), j)

\* int x; { &stack int a = &x; } &stack int b = &x;  accepted.
C22_Witness ==
    /\ prog = << Stmt("decl", "x", "-", "Stack"), Stmt("enter", "-", "-", "-"),
                 Stmt("takeref", "a", "x", "Mutable"), Stmt("exit", "-", "-", "-"),
                 Stmt("takeref", "b", "x", "Mutable") >>
    /\ verdict = "Ok"
    /\ borrows = {[place |-> "x", holder |-> "b", kind |-> "Mutable", live_from |-> 5, live_to |-> 5]}

\* The step takes a reference and is reported AliasConflict.
ConflictReported ==
    Stepped /\ Last.op \in BorrowOps /\ Diag("AliasConflict", LastPos) \in diags'

\* After the step the borrow table holds the record of the reference just
\* taken together with the records of the other holders, one of them of
\* the same place.
BothRecorded ==
    /\ \E r \in borrows' : r.holder = Last.n /\ r.place = Last.t /\ r.live_from = LastPos
    /\ {r \in borrows : r.holder # Last.n} \subseteq borrows'
    /\ \E r \in borrows' : r.holder # Last.n /\ r.place = Last.t

\* Statement i took a mutable reference that was reported AliasConflict,
\* and statement j, in the same block and outside unsafe, takes an immutable
\* reference to the same place for another holder while the first still
\* holds its reference.
AfterConflict(i, j) ==
    /\ i < j /\ SameBlock(i, j) /\ StillHeld(i, j) /\ ~UnsafeAt(j)
    /\ prog[i].op \in BorrowOps /\ prog[i].k = "Mutable"
    /\ Diag("AliasConflict", i) \in diags
    /\ prog[j].op \in BorrowOps /\ prog[j].k = "Immutable"
    /\ prog[j].t = prog[i].t /\ prog[j].n # prog[i].n

\* C23: recovery after AliasConflict.  When taking a reference is reported
\* AliasConflict the new borrow record is inserted all the same, so the
\* table holds both records after the statement, and a later statement is
\* checked against the inserted record: an immutable reference taken while
\* the reported mutable one is held is reported in its turn.
C23_Recovery ==
    /\ [][ ConflictReported => BothRecorded ]_vars
    /\ [](\A i \in 1..Len(prog), j \in 1..Len(prog) :
             AfterConflict(i, j) => Diag("AliasConflict", j) \in diags)

\* const &stack int a = &x; &stack int b = &x; (reported) a = &x; (reported
\* because of b's record alone).
C23_Witness ==
    /\ prog = << Stmt("decl", "x", "-", "Stack"), Stmt("takeref", "a", "x", "Immutable"),
                 Stmt("takeref", "b", "x", "Mutable"), Stmt("assign", "a", "x", "Immutable") >>
    /\ diags = {Diag("AliasConflict", 3), Diag("AliasConflict", 4)}
    /\ Cardinality({r \in borrows : r.place = "x"}) = 2

\* The resets of arena A among the first n statements.
Resets(A, n) == {m \in 1..n : prog[m].op = "reset" /\ prog[m].t = A}

\* The brace at x ends the conditional opened by the if at i: the true
\* branch of a lone if, or the else branch that followed it.
Closes(i, x) ==
    /\ prog[i].op = "if" /\ i < x /\ prog[x].op = "exit"
    /\ LET o == OpenerAt(x - 1) IN
       o = i \/ (prog[o].op = "else" /\ OpenerAt(o - 1) = i)

\* The larger of two generations.
Max(a, b) == IF a >= b THEN a ELSE b

\* The step walks the brace that ends the else branch of a conditional both
\* of whose branches reset arena A.
JoinsResets(A) ==
    LET e == OpenerAt(Len(prog)) IN
    /\ prog' = Append(prog, Stmt("exit", "else", "-", "-"))
    /\ \E m \in Resets(A, e) : m > OpenerAt(e - 1)
    /\ \E m \in Resets(A, Len(prog)) : m > e

Written(p, n) == {prog[m].t : m \in {k \in 1..n : prog[k].op = "setf" /\ prog[k].n = p}}

\* The struct variables declared so far.
Structs == {p \in DOMAIN places : places[p].kind = "struct"}

\* C25 as stated: a struct place is Uninit until a field is written,
\* PartiallyInit while some but not all of its fields are written and Init
\* once all are, and a read of a field not yet written is reported
\* UseOfUninitialized.
C25_AsStated ==
    /\ \A p \in Structs :
          places[p].init = CASE Written(p, Len(prog)) = {} -> "Uninit"
                             [] Written(p, Len(prog)) = Fields -> "Init"
                             [] OTHER -> "PartiallyInit"
    /\ \A j \in 1..Len(prog) :
          (prog[j].op = "readf" /\ prog[j].t \notin Written(prog[j].n, j))
              => Diag("UseOfUninitialized", j) \in diags

\* C25, amended: a struct place is Init from its declaration on, whichever
\* of its fields have been written: there is no PartiallyInit state, a field
\* assignment changes no initialization state, and a read of a field that
\* was never written is not reported UseOfUninitialized.
C25_StructState ==
    /\ \A p \in Structs : places[p].init = "Init"
    /\ \A j \in 1..Len(prog) :
          (prog[j].op = "readf" /\ prog[j].t \notin Written(prog[j].n, j))
              => Diag("UseOfUninitialized", j) \notin diags

\* Point p; p.x = 1.0; ... = p.y;  accepted although p.y was never written.
C25_Witness ==
    /\ prog = << Stmt("struct", "p", "-", "Stack"), Stmt("setf", "p", "x", "-"),
                 Stmt("readf", "p", "y", "-") >>
    /\ places["p"].init = "Init"
    /\ verdict = "Ok"

\* v is assigned on every path through the first n statements: after an
\* if / else on both branches, after a lone if or a loop already before it.
RECURSIVE MustInit(_, _)
MustInit(v, n) ==
    IF n = 0 THEN FALSE
    ELSE CASE prog[n].n = v /\ prog[n].op \in {"set", "decl"} -> TRUE
           [] prog[n].n = v /\ prog[n].op = "declu" -> FALSE
           [] prog[n].op = "else" -> MustInit(v, OpenerAt(n - 1) - 1)
           [] prog[n].op = "exit" /\ prog[n].n = "else" ->
                  MustInit(v, n - 1) /\ MustInit(v, OpenerAt(n - 1) - 1)
           [] prog[n].op = "exit" /\ prog[n].n \in {"if", "while"} ->
                  MustInit(v, OpenerAt(n - 1) - 1)
           [] OTHER -> MustInit(v, n - 1)

\* v is assigned in at most one branch of the if / else made of statements
\* i (if), e (else) and x (closing brace), and nowhere else before statement j.
OneBranchOnly(v, i, e, x, j) ==
    /\ prog[i].op = "if" /\ prog[e].op = "else" /\ OpenerAt(e - 1) = i
    /\ prog[x].op = "exit" /\ OpenerAt(x - 1) = e /\ x < j
    /\ \E d \in 1..i : prog[d].op = "declu" /\ prog[d].n = v
    /\ LET sets == {m \in 1..j : prog[m].op = "set" /\ prog[m].n = v} IN
       (\A m \in sets : i < m /\ m < e) \/ (\A m \in sets : e < m /\ m < x)

\* C26: a variable is Init after a control-flow join only if it is Init on
\* every path into it: a read is reported UseOfUninitialized exactly when
\* the variable is not assigned on every path that reaches the read, and in
\* particular a read after an if / else only one branch of which assigns the
\* variable is reported.
C26_MustInitMerge ==
    /\ \A j \in {r \in 1..Len(prog) : prog[r].op = "read"} :
          Diag("UseOfUninitialized", j) \in diags <=> ~MustInit(prog[j].n, j - 1)
    /\ \A j \in {r \in 1..Len(prog) : prog[r].op = "read"} :
       \A x \in {c \in 1..j : prog[c].op = "exit"} :
       \A e \in {c \in 1..x : prog[c].op = "else"} :
       \A i \in {c \in 1..e : prog[c].op = "if"} :
          OneBranchOnly(prog[j].n, i, e, x, j) => Diag("UseOfUninitialized", j) \in diags

\* int x; if (c) { x = 1; } else { }  ... = x;  reported.
C26_Witness ==
    /\ prog = << Stmt("declu", "x", "-", "Stack"), Stmt("if", "-", "-", "-"),
                 Stmt("set", "x", "-", "-"), Stmt("else", "-", "-", "-"),
                 Stmt("exit", "else", "-", "-"), Stmt("read", "x", "-", "-") >>
    /\ diags = {Diag("UseOfUninitialized", 6)}
    /\ places["x"].init = "Uninit"

\* Statement j dereferences a place overwritten at statement m, with no
\* null check of the place between the two that dominates j.
DerefAfterOverwrite(m, j) ==
    /\ m < j /\ prog[m].op = "setn" /\ prog[j].op = "deref" /\ prog[j].n = prog[m].n
    /\ \A i \in (m + 1)..(j - 1) : ~(NonNullBranch(i, prog[j].n) /\ Inside(i, j))

\* The place the last statement overwrote is MaybeNull.
OverwriteWidens ==
    (prog # <<>> /\ prog[Len(prog)].op = "setn") => MaybeNull(places[prog[Len(prog)].n])

\* C27 as stated: after an overwrite of a nullable place, in either branch
\* of a conditional or outside one, the place is MaybeNull and a dereference
\* with no new dominating null check is reported NullDerefRisk.
C27_AsStated ==
    /\ OverwriteWidens
    /\ \A m, j \in 1..Len(prog) :
          DerefAfterOverwrite(m, j) => Diag("NullDerefRisk", j) \in diags

\* C27, amended: after an overwrite of a nullable place, in either branch of
\* a conditional or outside one, the place is MaybeNull, and a dereference
\* outside unsafe blocks with no new dominating null check is reported
\* NullDerefRisk.
C27_NarrowingLost ==
    /\ OverwriteWidens
    /\ \A m, j \in 1..Len(prog) :
          (DerefAfterOverwrite(m, j) /\ ~UnsafeAt(j)) => Diag("NullDerefRisk", j) \in diags

\* ?&stack Node n = ...; if (n == null) { } else { n = ...; *n }  reported.
C27_Witness ==
    /\ prog = << Stmt("nref", "n", "-", "-"), Stmt("if", "n", "-", "=="),
                 Stmt("else", "-", "-", "-"), Stmt("setn", "n", "-", "-"),
                 Stmt("deref", "n", "-", "-") >>
    /\ diags = {Diag("NullDerefRisk", 5)}
    /\ MaybeNull(places["n"])

\* The step walks a reset statement that names arena A.
ResetsArena(A) == prog' = Append(prog, Stmt("reset", "-", A, "-"))

\* C28: the generation counter of an arena is changed only by a reset
\* statement naming that arena, which adds one to it; every other statement
\* (an allocation, a use of a reference, a borrow, a declaration, a block
\* entry or exit, a reset of another arena) leaves it as it is, so the
\* counter never decreases.
C28_GenerationFrame ==
    [][\A A \in DOMAIN generation :
          /\ A \in DOMAIN generation'
          /\ generation'[A].gen = IF ResetsArena(A) THEN generation[A].gen + 1
                                                    ELSE generation[A].gen
          /\ generation'[A].gen >= generation[A].gen]_vars

\* region P; region Q; arena_reset<P>(); q = new<Q>; *q  : P advanced, Q not.
C28_Witness ==
    /\ prog = << Stmt("region", "P", "-", "-"), Stmt("region", "Q", "-", "-"),
                 Stmt("reset", "-", "P", "-"), Stmt("new", "a", "Q", "-"),
                 Stmt("use", "a", "-", "-") >>
    /\ generation["P"].gen = 1 /\ generation["Q"].gen = 0
    /\ diags = {}

\* The statements that store the address of a variable into a reference
\* variable, the scope depth the stored reference was created for (that of
\* its referent, 0 for static storage) and the depth of the place stored into.
AddrStores == {j \in 1..Len(prog) : prog[j].op = "assign"}

CreatedAt(j) == places[prog[j].t].depth

StoredInto(j) == places[prog[j].n].depth

\* C29 as stated: a stored reference's scope of creation is at least as deep
\* as the place it is stored into, and a store that is not is reported
\* RegionEscape.
C29_AsStated ==
    \A j \in AddrStores :
        Diag("RegionEscape", j) \in diags <=> ~(CreatedAt(j) >= StoredInto(j))

\* C29, amended: a stored reference's scope of creation is no deeper than
\* (at least as long-lived as) the place it is stored into, static storage
\* being outermost; outside unsafe blocks a store is reported RegionEscape
\* exactly when it violates this.
C29_CreationScope ==
    \A j \in AddrStores :
        ~UnsafeAt(j) =>
            (Diag("RegionEscape", j) \in diags <=> ~(CreatedAt(j) <= StoredInto(j)))

\* int x; { &stack int a; a = &x; }  accepted: x is declared outside a's block.
C29_Witness ==
    /\ prog = << Stmt("decl", "x", "-", "Stack"), Stmt("enter", "-", "-", "-"),
                 Stmt("declref", "a", "Stack", "Mutable"),
                 Stmt("assign", "a", "x", "Mutable") >>
    /\ CreatedAt(4) < StoredInto(4)
    /\ diags = {}

\* Statement j uses the arena reference that statement c created.
UsesNew(c, j) ==
    c < j /\ prog[c].op = "new" /\ prog[j].op = "use" /\ prog[j].n = prog[c].n

====
